---- MODULE Spec2Model ----
(***************************************************************************)
(* Model of the PyPI dependency analysis: the graph builder                *)
(* (utils.py / exploration.py build_dependency_graph), the reverse graph,  *)
(* the reachability search resolve_dependency (networkx bfs_edges), the    *)
(* requirement-name extraction, the latest-version filter, the prototype   *)
(* PackageSource.add and create_dependency_graph of                        *)
(* pypi-reverse-dependencies/graph.py.                                     *)
(*                                                                         *)
(* Strings are sequences of one-character strings.  The null of a polars   *)
(* string column is None; a matched capture group is never empty, so the   *)
(* column requires_dist after str.extract holds None or a non-empty name.  *)
(***************************************************************************)
EXTENDS Integers, Sequences, FiniteSets, TLC

VARIABLES pc,
          \* graph builder and reachability search
          dependency_graph_edges, dependency_graph, required_by_graph,
          call, bfs, result,
          \* requirement-name extraction
          requirement, extracted,
          \* the notebook pipeline
          parquet, package_metadata, transitive_dependencies,
          transitive_requirements,
          \* PackageSource
          packages, last_add, first_dependencies,
          \* create_dependency_graph
          directory_path, network, file_index, raised

graphVars == <<dependency_graph_edges, dependency_graph, required_by_graph,
               call, bfs, result>>

extractVars == <<requirement, extracted>>

pipelineVars == <<parquet, package_metadata, transitive_dependencies,
                  transitive_requirements>>

sourceVars == <<packages, last_add, first_dependencies>>

createVars == <<directory_path, network, file_index, raised>>

vars == <<pc, graphVars, extractVars, pipelineVars, sourceVars, createVars>>

\* ------------------------------------------------------------------ bounds
MaxRows == 3

\* ----------------------------------------------------------------- helpers
None == <<>>

Range(s) == {s[i] : i \in 1..Len(s)}

NoDuplicates(s) == \A i, j \in 1..Len(s) : s[i] = s[j] => i = j

\* package names of the graph specification; Missing is never given as a row
Names == {<<"a">>, <<"b">>, <<"c">>}
Missing == <<"z">>

\* ------------------------------------------------------------ nx.DiGraph
\* nodes in insertion order, succ[n] the successors of n in insertion order
DiGraph == [nodes |-> <<>>, succ |-> <<>>]

has_node(G, n) == n \in Range(G.nodes)

add_node(G, n) ==
    IF has_node(G, n) THEN G
    ELSE [nodes |-> Append(G.nodes, n), succ |-> G.succ @@ (n :> <<>>)]

add_edge(G, u, v) ==
    LET G2 == add_node(add_node(G, u), v)
    IN  IF v \in Range(G2.succ[u]) THEN G2
        ELSE [G2 EXCEPT !.succ[u] = Append(@, v)]

\* the edges (u, v) of G in iteration order: by node, then by successor
RECURSIVE EdgesFrom(_, _, _)
EdgesFrom(G, i, j) ==
    IF i > Len(G.nodes) THEN <<>>
    ELSE IF j > Len(G.succ[G.nodes[i]]) THEN EdgesFrom(G, i + 1, 1)
    ELSE <<<<G.nodes[i], G.succ[G.nodes[i]][j]>>>> \o EdgesFrom(G, i, j + 1)

edges(G) == EdgesFrom(G, 1, 1)

RECURSIVE add_nodes_from(_, _)
add_nodes_from(H, ns) ==
    IF ns = <<>> THEN H ELSE add_nodes_from(add_node(H, Head(ns)), Tail(ns))

RECURSIVE add_reversed_edges_from(_, _)
add_reversed_edges_from(H, es) ==
    IF es = <<>> THEN H
    ELSE add_reversed_edges_from(add_edge(H, Head(es)[2], Head(es)[1]), Tail(es))

\* a variant that copies without reversing
reverse_as_copy(G) == G

\* DiGraph.reverse(copy=True): same nodes, every edge (u, v) added as (v, u)
reverse(G) == add_reversed_edges_from(add_nodes_from(DiGraph, G.nodes), edges(G))

\* ------------------------------------------------- build_dependency_graph
\* a variant that makes only the source of a row a node
build_row_source_only(G, name, depends_on) == add_node(G, name)

\* a variant that skips the rows without a dependency
build_row_skip_none(G, name, depends_on) ==
    IF depends_on = None THEN G
    ELSE add_edge(G, name, depends_on)

\* body of the loop over the rows (name, requires_dist)
build_row(G, name, depends_on) ==
    IF depends_on = None THEN add_node(G, name)
    ELSE add_edge(G, name, depends_on)

RECURSIVE build_dependency_graph(_)
build_dependency_graph(rows) ==
    IF rows = <<>> THEN DiGraph
    ELSE LET n == Len(rows)
         IN  build_row(build_dependency_graph(SubSeq(rows, 1, n - 1)),
                       rows[n][1], rows[n][2])

\* ------------------------------------------------------- nx.bfs_edges
\* generic_bfs_edges(G, source): seen starts as {source}; cur is
\* this_parents_children (the unread rest of it), nxt next_parents_children;
\* out the children yielded so far; expanded the nodes whose neighbour
\* iterator has been taken.
IdleBfs == [seen |-> {}, cur |-> <<>>, nxt |-> <<>>, depth |-> 0,
            out |-> <<>>, expanded |-> <<>>, done |-> TRUE]

bfs_seen0_empty(source) == {}

bfs_seen0(source) == {source}

bfs_start(G, source) ==
    [seen |-> bfs_seen0(source),
     cur |-> IF 0 < Len(G.nodes) THEN <<<<source, G.succ[source]>>>> ELSE <<>>,
     nxt |-> <<>>, depth |-> 0, out |-> <<>>, expanded |-> <<source>>,
     done |-> ~(0 < Len(G.nodes))]

\* a variant that never marks the child as seen
bfs_visit_unmarked(G, b, parent, child) ==
    IF child \notin b.seen
    THEN [b EXCEPT !.nxt = Append(@, <<child, G.succ[child]>>),
                   !.expanded = Append(@, child),
                   !.out = Append(@, child)]
    ELSE b

\* the child read from the neighbour iterator of the current parent
bfs_visit(G, b, parent, child) ==
    IF child \notin b.seen
    THEN [b EXCEPT !.seen = @ \cup {child},
                   !.nxt = Append(@, <<child, G.succ[child]>>),
                   !.expanded = Append(@, child),
                   !.out = Append(@, child)]
    ELSE b

\* one step of the generator: read one child, leave a parent, or end a level
bfs_step(G, b) ==
    IF b.cur = <<>>
    THEN \* for loop over the level is over: depth += 1, while condition
         IF b.nxt # <<>> /\ b.depth + 1 < Len(G.nodes)
         THEN [b EXCEPT !.cur = b.nxt, !.nxt = <<>>, !.depth = @ + 1]
         ELSE [b EXCEPT !.depth = @ + 1, !.done = TRUE]
    ELSE LET parent == b.cur[1][1]
             children == b.cur[1][2]
         IN  IF children # <<>>
             THEN [bfs_visit(G, b, parent, Head(children))
                      EXCEPT !.cur[1] = <<parent, Tail(children)>>]
             ELSE \* children exhausted: if len(seen) == n: return
                  IF Cardinality(b.seen) = Len(G.nodes)
                  THEN [b EXCEPT !.done = TRUE]
                  ELSE [b EXCEPT !.cur = Tail(@)]

RECURSIVE bfs_run(_, _)
bfs_run(G, b) == IF b.done THEN b ELSE bfs_run(G, bfs_step(G, b))

\* G.neighbors(source) raises NetworkXError when source is not a node
raises_not_in_graph(G, package_name) == ~has_node(G, package_name)

\* resolve_dependency: [v for _, v in nx.bfs_edges(G, package_name)]
resolve_dependency(G, package_name) ==
    IF raises_not_in_graph(G, package_name)
    THEN [raised |-> TRUE, value |-> <<>>]
    ELSE [raised |-> FALSE, value |-> bfs_run(G, bfs_start(G, package_name)).out]

\* ------------------------------------------------- extract_dependencies
\* the characters requirement strings are made of
Alphabet == {"a", "_", "-", ">", " "}

RECURSIVE StringsUpTo(_)
StringsUpTo(n) ==
    IF n = 0 THEN {<<>>}
    ELSE LET S == StringsUpTo(n - 1)
         IN  S \cup {Append(s, c) : s \in {t \in S : Len(t) = n - 1}, c \in Alphabet}

Letters == {"a", "b", "c", "z"}
Digits == {"0", "1", "2"}

\* \w of the regex: letters, digits and the underscore
IsWord(c) == c \in Letters \cup Digits \cup {"_"}

\* the character class [\w_-]
InClass(c) == IsWord(c) \/ c = "_" \/ c = "-"

\* the end of the greedy run of class characters that starts at position i
RECURSIVE RunEnd(_, _)
RunEnd(s, i) ==
    IF i < Len(s) /\ InClass(s[i + 1]) THEN RunEnd(s, i + 1) ELSE i

\* where the search for ([\w_-]+) begins: the regex has no anchor, so the
\* leftmost position of the string that holds a class character
match_start(s) ==
    {i \in 1..Len(s) : InClass(s[i]) /\ \A j \in 1..(i - 1) : ~InClass(s[j])}

\* pl.col.requires_dist.str.extract(r"([\w_-]+)", 1): group 1 of the
\* leftmost match, null when nothing matches
str_extract(s) ==
    IF match_start(s) = {} THEN None
    ELSE LET i == CHOOSE k \in match_start(s) : TRUE
         IN  SubSeq(s, i, RunEnd(s, i))

\* ------------------------------------------------------ package_metadata
\* the greatest upload_time among the records of the table with this name
max_upload_time(table, name) ==
    LET ts == {table[i].upload_time : i \in {k \in 1..Len(table) : table[k].name = name}}
    IN  CHOOSE t \in ts : \A u \in ts : u <= t

\* .filter(pl.col.upload_time == pl.col.upload_time.max().over("name"))
keep_latest(table, r) == r.upload_time = max_upload_time(table, r.name)

latest_version(table) == SelectSeq(table, LAMBDA r : keep_latest(table, r))

\* explode("requires_dist") of one record: a null or empty list gives one
\* row with a null, otherwise one row for each requirement string
explode(r) ==
    IF r.requires_dist.null \/ r.requires_dist.list = <<>>
    THEN <<<<r.name, None>>>>
    ELSE [i \in 1..Len(r.requires_dist.list) |-> <<r.name, r.requires_dist.list[i]>>]

RECURSIVE extract_dependencies(_)
extract_dependencies(table) ==
    IF table = <<>> THEN <<>>
    ELSE LET rows == explode(Head(table))
         IN  [i \in 1..Len(rows) |-> <<rows[i][1], str_extract(rows[i][2])>>]
                 \o extract_dependencies(Tail(table))

\* -------------------------------------------------------- PackageSource
\* the pieces of s between the separators
RECURSIVE Split(_, _)
Split(s, sep) ==
    IF \A i \in 1..Len(s) : s[i] # sep THEN <<s>>
    ELSE LET i == CHOOSE k \in 1..Len(s) :
                      s[k] = sep /\ \A j \in 1..(k - 1) : s[j] # sep
         IN  <<SubSeq(s, 1, i - 1)>> \o Split(SubSeq(s, i + 1, Len(s)), sep)

DigitValue == ("0" :> 0) @@ ("1" :> 1) @@ ("2" :> 2)

IsNumber(s) == s # <<>> /\ \A i \in 1..Len(s) : s[i] \in Digits

RECURSIVE ToInt(_)
ToInt(s) ==
    IF s = <<>> THEN 0
    ELSE 10 * ToInt(SubSeq(s, 1, Len(s) - 1)) + DigitValue[s[Len(s)]]

\* Version.parse(text): major[.minor[.patch]], a part left out is 0; any
\* other text raises
Version_parse(text) ==
    LET parts == Split(text, ".")
    IN  IF Len(parts) \in 1..3 /\ \A i \in 1..Len(parts) : IsNumber(parts[i])
        THEN [ok |-> TRUE,
              version |-> [i \in 1..3 |->
                             IF i <= Len(parts) THEN ToInt(parts[i]) ELSE 0]]
        ELSE [ok |-> FALSE, version |-> <<>>]

\* parse_constraint(constraint): a comparison with a version
parse_constraint(constraint) ==
    IF Len(constraint) >= 2 /\ constraint[1] \in {">", "<"}
          /\ Version_parse(Tail(constraint)).ok
    THEN [ok |-> TRUE, op |-> constraint[1],
          version |-> Version_parse(Tail(constraint)).version]
    ELSE [ok |-> FALSE, op |-> "", version |-> <<>>]

\* Dependency(name, constraint)
Dependency(dep) ==
    [name |-> dep[1], constraint |-> parse_constraint(dep[2]),
     pretty_constraint |-> dep[2]]

\* deps=None and deps given as the items of a dict
NoDeps == [none |-> TRUE, items |-> <<>>]
Deps(items) == [none |-> FALSE, items |-> items]

IsStored(P, name, version) == name \in DOMAIN P /\ version \in DOMAIN P[name]

\* self._packages[name][version] = dependencies
store(P, name, version, dependencies) ==
    [n \in DOMAIN P \cup {name} |->
        IF n = name
        THEN [v \in (IF name \in DOMAIN P THEN DOMAIN P[name] ELSE {}) \cup {version} |->
                IF v = version THEN dependencies ELSE P[name][v]]
        ELSE P[n]]

\* a variant without the check for a stored version
add_overwrite(P, name, text, deps) ==
    LET parsed == Version_parse(text)
        P1 == IF name \in DOMAIN P THEN P ELSE P @@ (name :> <<>>)
        dependencies == [i \in 1..Len(deps.items) |-> Dependency(deps.items[i])]
    IN  IF ~parsed.ok THEN [packages |-> P, outcome |-> "ParseVersionError"]
        ELSE IF \E i \in 1..Len(dependencies) : ~dependencies[i].constraint.ok
        THEN [packages |-> P1, outcome |-> "ParseConstraintError"]
        ELSE [packages |-> store(P1, name, parsed.version, dependencies),
              outcome |-> "ok"]

\* PackageSource.add(name, version, deps)
add(P, name, text, deps) ==
    LET parsed == Version_parse(text)
        P1 == IF name \in DOMAIN P THEN P ELSE P @@ (name :> <<>>)
        dependencies == [i \in 1..Len(deps.items) |-> Dependency(deps.items[i])]
    IN  IF ~parsed.ok THEN [packages |-> P, outcome |-> "ParseVersionError"]
        ELSE IF parsed.version \in DOMAIN P1[name]
        THEN [packages |-> P1, outcome |-> "ValueError"]
        ELSE IF \E i \in 1..Len(dependencies) : ~dependencies[i].constraint.ok
        THEN [packages |-> P1, outcome |-> "ParseConstraintError"]
        ELSE [packages |-> store(P1, name, parsed.version, dependencies),
              outcome |-> "ok"]

\* ---------------------------------------------- create_dependency_graph
\* str.lower() on the characters used here
Lower(c) == IF c = "A" THEN "a" ELSE IF c = "B" THEN "b" ELSE c

IsSeparator(c) == c \in {"-", "_", "."}

\* re.sub(r"[-_.]+", "-", name.lower())
RECURSIVE collapse(_)
collapse(s) ==
    IF s = <<>> THEN <<>>
    ELSE IF IsSeparator(s[1])
    THEN IF Len(s) >= 2 /\ IsSeparator(s[2]) THEN collapse(Tail(s))
         ELSE <<"-">> \o collapse(Tail(s))
    ELSE <<s[1]>> \o collapse(Tail(s))

normalize_package_name(name) == collapse([i \in 1..Len(name) |-> Lower(name[i])])

\* re.split(r"[<>=!;[]", requirement)[0]
before_specifier(s) ==
    LET stops == {i \in 1..Len(s) : s[i] \in {"<", ">", "=", "!", ";", "["}}
    IN  IF stops = {} THEN s
        ELSE SubSeq(s, 1, (CHOOSE i \in stops : \A j \in stops : i <= j) - 1)

\* str.strip()
RECURSIVE strip(_)
strip(s) ==
    IF s = <<>> THEN s
    ELSE IF s[1] = " " THEN strip(Tail(s))
    ELSE IF s[Len(s)] = " " THEN strip(SubSeq(s, 1, Len(s) - 1))
    ELSE s

extract_package_name_from_requirement(req) ==
    normalize_package_name(strip(before_specifier(req)))

\* _extract_dependencies(metadata): the set of the non-empty names of the
\* non-empty requirement strings
extract_dependencies_set(metadata) ==
    IF metadata.requires_dist.null THEN {}
    ELSE {extract_package_name_from_requirement(metadata.requires_dist.list[i]) :
             i \in {k \in 1..Len(metadata.requires_dist.list) :
                      metadata.requires_dist.list[k] # <<>>}} \ {<<>>}

\* the orders in which a set can be iterated
Orders(S) ==
    {f \in [1..Cardinality(S) -> S] : \A i, j \in 1..Cardinality(S) : f[i] = f[j] => i = j}

RECURSIVE add_dependencies(_, _, _)
add_dependencies(G, name, deps) ==
    IF deps = <<>> THEN G
    ELSE add_dependencies(add_edge(add_node(G, Head(deps)), name, Head(deps)),
                          name, Tail(deps))

\* a file of web/json: no regular file ("other"), a file that cannot be
\* opened or decoded ("unparsable"), JSON that is empty or null ("empty"),
\* JSON that is no object ("nonobject"), or metadata with info.name and
\* info.requires_dist
NoDirectory == [exists |-> FALSE, is_dir |-> FALSE, has_json |-> FALSE, files |-> <<>>]

\* _parse_metadata_file returns a value that is used as metadata
parses(file) == file.kind \in {"nonobject", "metadata"}

\* a variant that makes the package a node only through its dependencies
scan_file_edges_only(G, file, deps) ==
    IF file.kind = "other" \/ ~parses(file) THEN [network |-> G, raised |-> "none"]
    ELSE IF file.kind = "nonobject" THEN [network |-> G, raised |-> "AttributeError"]
    ELSE IF file.name = <<>> THEN [network |-> G, raised |-> "none"]
    ELSE [network |-> add_dependencies(G, normalize_package_name(file.name), deps),
          raised |-> "none"]

\* the body of the loop over the directory for one entry; deps is the set of
\* dependencies in the order it is iterated
scan_file(G, file, deps) ==
    IF file.kind = "other" \/ ~parses(file) THEN [network |-> G, raised |-> "none"]
    ELSE IF file.kind = "nonobject" THEN [network |-> G, raised |-> "AttributeError"]
    ELSE IF file.name = <<>> THEN [network |-> G, raised |-> "none"]
    ELSE [network |-> add_dependencies(add_node(G, normalize_package_name(file.name)),
                                       normalize_package_name(file.name), deps),
          raised |-> "none"]

\* ------------------------------------------------------------ actions
GraphInit ==
    /\ dependency_graph_edges = <<>>
    /\ dependency_graph = DiGraph
    /\ required_by_graph = DiGraph
    /\ call = [graph |-> "none", package_name |-> None]
    /\ bfs = IdleBfs
    /\ result = <<>>

ExtractInit ==
    /\ requirement = None
    /\ extracted = None

PipelineInit ==
    /\ parquet = <<>>
    /\ package_metadata = <<>>
    /\ transitive_dependencies = <<>>
    /\ transitive_requirements = <<>>

\* PackageSource.__init__: no package is stored
SourceInit ==
    /\ packages = <<>>
    /\ last_add = [name |-> None, version |-> None, deps |-> NoDeps, outcome |-> "none"]
    /\ first_dependencies = <<>>

CreateInit ==
    /\ directory_path = NoDirectory
    /\ network = DiGraph
    /\ file_index = 0
    /\ raised = "none"

Init ==
    /\ pc = "build"
    /\ GraphInit
    /\ ExtractInit
    /\ PipelineInit
    /\ SourceInit
    /\ CreateInit

\* one iteration of the loop of build_dependency_graph
BuildRow(name, depends_on) ==
    /\ pc = "build"
    /\ Len(dependency_graph_edges) < MaxRows
    /\ dependency_graph_edges' = Append(dependency_graph_edges, <<name, depends_on>>)
    /\ dependency_graph' = build_row(dependency_graph, name, depends_on)
    /\ UNCHANGED <<pc, required_by_graph, call, bfs, result, extractVars, pipelineVars, sourceVars, createVars>>

\* the loop ends, the graph is returned and reversed
Reverse ==
    /\ pc = "build"
    /\ required_by_graph' = reverse(dependency_graph)
    /\ pc' = "built"
    /\ UNCHANGED <<dependency_graph_edges, dependency_graph, call, bfs, result, extractVars, pipelineVars, sourceVars, createVars>>

GraphOf(which) ==
    IF which = "dependency_graph" THEN dependency_graph ELSE required_by_graph

\* a lenient variant: a name that is no node yields the empty list
Call_missing_is_empty(which, package_name) ==
    /\ pc = "built"
    /\ call' = [graph |-> which, package_name |-> package_name]
    /\ IF raises_not_in_graph(GraphOf(which), package_name)
       THEN pc' = "returned" /\ bfs' = bfs
       ELSE pc' = "running" /\ bfs' = bfs_start(GraphOf(which), package_name)
    /\ UNCHANGED <<dependency_graph_edges, dependency_graph, required_by_graph, result, extractVars, pipelineVars, sourceVars, createVars>>

\* resolve_dependency(graph, package_name) is called
Call(which, package_name) ==
    /\ pc = "built"
    /\ call' = [graph |-> which, package_name |-> package_name]
    /\ IF raises_not_in_graph(GraphOf(which), package_name)
       THEN pc' = "raised" /\ bfs' = bfs
       ELSE pc' = "running" /\ bfs' = bfs_start(GraphOf(which), package_name)
    /\ UNCHANGED <<dependency_graph_edges, dependency_graph, required_by_graph, result, extractVars, pipelineVars, sourceVars, createVars>>

BfsStep ==
    /\ pc = "running"
    /\ ~bfs.done
    /\ bfs' = bfs_step(GraphOf(call.graph), bfs)
    /\ UNCHANGED <<pc, dependency_graph_edges, dependency_graph,
                   required_by_graph, call, result, extractVars, pipelineVars, sourceVars, createVars>>

\* the generator is exhausted: the list comprehension returns
Return ==
    /\ pc = "running"
    /\ bfs.done
    /\ result' = bfs.out
    /\ pc' = "returned"
    /\ UNCHANGED <<dependency_graph_edges, dependency_graph,
                   required_by_graph, call, bfs, extractVars, pipelineVars, sourceVars, createVars>>

Next ==
    \/ \E name \in Names, depends_on \in Names \cup {None} : BuildRow(name, depends_on)
    \/ Reverse
    \/ \E which \in {"dependency_graph", "required_by_graph"},
          package_name \in Names \cup {Missing} : Call(which, package_name)
    \/ BfsStep
    \/ Return

Spec == Init /\ [][Next]_vars

FairSpec == Spec /\ WF_vars(BfsStep) /\ WF_vars(Return)

\* ------------------------------------------------------------------------
\* extraction applied to one requirement string
MaxLen == 3

InitExtract ==
    /\ pc = "extract"
    /\ GraphInit
    /\ ExtractInit
    /\ PipelineInit
    /\ SourceInit
    /\ CreateInit

Extract(s) ==
    /\ pc = "extract"
    /\ requirement' = s
    /\ extracted' = str_extract(s)
    /\ pc' = "extracted"
    /\ UNCHANGED <<graphVars, pipelineVars, sourceVars, createVars>>

NextExtract == \E s \in StringsUpTo(MaxLen) : Extract(s)

SpecExtract == InitExtract /\ [][NextExtract]_vars

\* ------------------------------------------------------------------------
\* the notebook cells in order: the snapshot is read and filtered, the two
\* graphs are built, and the two tables are filled row by row
MaxRecords == 2

Null == [null |-> TRUE, list |-> <<>>]
List(l) == [null |-> FALSE, list |-> l]

RequiresDists ==
    {Null, List(<<>>), List(<<<<">">>>>), List(<<<<"b">>>>),
     List(<<<<"a", ">", "1">>, <<"c">>>>)}

Records ==
    [name : {<<"a">>, <<"b">>}, upload_time : {1, 2}, requires_dist : RequiresDists]

RECURSIVE Tables(_)
Tables(n) ==
    IF n = 0 THEN {<<>>}
    ELSE LET T == Tables(n - 1)
         IN  T \cup {Append(t, r) : t \in {u \in T : Len(u) = n - 1}, r \in Records}

InitPipeline ==
    /\ pc = "start"
    /\ GraphInit
    /\ ExtractInit
    /\ PipelineInit
    /\ SourceInit
    /\ CreateInit

\* pl.scan_parquet(...).filter(...).collect()
ScanParquet(table) ==
    /\ pc = "start"
    /\ parquet' = table
    /\ package_metadata' = latest_version(table)
    /\ pc' = "metadata"
    /\ UNCHANGED <<graphVars, extractVars, transitive_dependencies,
                   transitive_requirements, sourceVars, createVars>>

\* dependency_graph and required_by_graph are made
BuildGraphs ==
    /\ pc = "metadata"
    /\ dependency_graph_edges' = extract_dependencies(package_metadata)
    /\ dependency_graph' = build_dependency_graph(dependency_graph_edges')
    /\ required_by_graph' = reverse(dependency_graph')
    /\ pc' = "graphs"
    /\ UNCHANGED <<call, bfs, result, extractVars, pipelineVars, sourceVars, createVars>>

\* map_elements calls resolve_dependency(dependency_graph, name) for a row
TransitiveDependenciesRow ==
    /\ pc = "graphs"
    /\ Len(transitive_dependencies) < Len(package_metadata)
    /\ LET name == package_metadata[Len(transitive_dependencies) + 1].name
           r == resolve_dependency(dependency_graph, name)
       IN  /\ call' = [graph |-> "dependency_graph", package_name |-> name]
           /\ IF r.raised
              THEN pc' = "raised" /\ UNCHANGED transitive_dependencies
              ELSE /\ pc' = pc
                   /\ transitive_dependencies' =
                        Append(transitive_dependencies,
                               [name |-> name, depends_on |-> r.value])
    /\ UNCHANGED <<dependency_graph_edges, dependency_graph, required_by_graph,
                   bfs, result, extractVars, parquet, package_metadata,
                   transitive_requirements, sourceVars, createVars>>

\* map_elements calls resolve_dependency(required_by_graph, name) for a row
TransitiveRequirementsRow ==
    /\ pc = "graphs"
    /\ Len(transitive_dependencies) = Len(package_metadata)
    /\ Len(transitive_requirements) < Len(package_metadata)
    /\ LET name == package_metadata[Len(transitive_requirements) + 1].name
           r == resolve_dependency(required_by_graph, name)
       IN  /\ call' = [graph |-> "required_by_graph", package_name |-> name]
           /\ IF r.raised
              THEN pc' = "raised" /\ UNCHANGED transitive_requirements
              ELSE /\ pc' = pc
                   /\ transitive_requirements' =
                        Append(transitive_requirements,
                               [name |-> name, depends_on |-> r.value])
    /\ UNCHANGED <<dependency_graph_edges, dependency_graph, required_by_graph,
                   bfs, result, extractVars, parquet, package_metadata,
                   transitive_dependencies, sourceVars, createVars>>

NextPipeline ==
    \/ \E table \in Tables(MaxRecords) : ScanParquet(table)
    \/ BuildGraphs
    \/ TransitiveDependenciesRow
    \/ TransitiveRequirementsRow

SpecPipeline == InitPipeline /\ [][NextPipeline]_vars

\* ------------------------------------------------------------------------
\* calls of PackageSource.add on one source
MaxAdds == 3

VersionTexts ==
    {<<"1">>, <<"1", ".", "0">>, <<"2", ".", "0", ".", "0">>, <<"a">>}

DepsGiven ==
    {NoDeps, Deps(<<>>), Deps(<<<<<<"c">>, <<">", "1">>>>>>),
     Deps(<<<<<<"c">>, <<"<", "2">>>>>>), Deps(<<<<<<"c">>, <<"a">>>>>>)}

AddCount == Cardinality(DOMAIN first_dependencies)

InitSource ==
    /\ pc = "source"
    /\ GraphInit
    /\ ExtractInit
    /\ PipelineInit
    /\ SourceInit
    /\ CreateInit

Add(name, version, deps) ==
    /\ pc = "source"
    /\ AddCount < MaxAdds
    /\ LET r == add(packages, name, version, deps)
       IN  /\ packages' = r.packages
           /\ last_add' = [name |-> name, version |-> version, deps |-> deps,
                           outcome |-> r.outcome]
           /\ first_dependencies' =
                 IF r.outcome = "ok"
                       /\ <<name, Version_parse(version).version>>
                              \notin DOMAIN first_dependencies
                 THEN first_dependencies
                         @@ (<<name, Version_parse(version).version>> :>
                                r.packages[name][Version_parse(version).version])
                 ELSE first_dependencies
    /\ UNCHANGED <<pc, graphVars, extractVars, pipelineVars, createVars>>

NextSource ==
    \E name \in {<<"a">>, <<"b">>}, version \in VersionTexts, deps \in DepsGiven :
        Add(name, version, deps)

SpecSource == InitSource /\ [][NextSource]_vars

\* ------------------------------------------------------------------------
\* one call of create_dependency_graph(directory_path)
MaxFiles == 2

File(kind, name, requires_dist) ==
    [kind |-> kind, name |-> name, requires_dist |-> requires_dist]

Files ==
    {File("other", <<>>, Null), File("unparsable", <<>>, Null),
     File("empty", <<>>, Null), File("nonobject", <<>>, Null),
     File("metadata", <<>>, Null),
     File("metadata", <<"a">>, Null),
     File("metadata", <<"a">>, List(<<<<"A", "_", ".", "b", " ", ">", "1">>, <<"c">>>>)),
     File("metadata", <<"A", "_", "b">>, List(<<<<>>, <<">", "1">>, <<"a", "[", "c", "]">>>>))}

RECURSIVE FileLists(_)
FileLists(n) ==
    IF n = 0 THEN {<<>>}
    ELSE LET T == FileLists(n - 1)
         IN  T \cup {Append(t, f) : t \in {u \in T : Len(u) = n - 1}, f \in Files}

Directories ==
    {NoDirectory,
     [exists |-> TRUE, is_dir |-> FALSE, has_json |-> FALSE, files |-> <<>>],
     [exists |-> TRUE, is_dir |-> TRUE, has_json |-> FALSE, files |-> <<>>]}
    \cup {[exists |-> TRUE, is_dir |-> TRUE, has_json |-> TRUE, files |-> fs] :
             fs \in FileLists(MaxFiles)}

InitCreate ==
    /\ pc = "start"
    /\ GraphInit
    /\ ExtractInit
    /\ PipelineInit
    /\ SourceInit
    /\ CreateInit

\* the checks of the path, network = nx.DiGraph(), and iterdir() of web/json
Enter(dir) ==
    /\ pc = "start"
    /\ directory_path' = dir
    /\ network' = DiGraph
    /\ file_index' = 0
    /\ IF ~dir.exists THEN pc' = "raised" /\ raised' = "FileNotFoundError"
       ELSE IF ~dir.is_dir THEN pc' = "raised" /\ raised' = "ValueError"
       ELSE IF ~dir.has_json THEN pc' = "raised" /\ raised' = "FileNotFoundError"
       ELSE pc' = "scanning" /\ raised' = raised
    /\ UNCHANGED <<graphVars, extractVars, pipelineVars, sourceVars>>

\* one iteration of the loop over the entries of web/json
ScanFile ==
    /\ pc = "scanning"
    /\ file_index < Len(directory_path.files)
    /\ LET file == directory_path.files[file_index + 1]
       IN  \E deps \in Orders(IF file.kind = "metadata"
                              THEN extract_dependencies_set(file) ELSE {}) :
              LET r == scan_file(network, file, deps)
              IN  /\ network' = r.network
                  /\ raised' = r.raised
                  /\ pc' = IF r.raised = "none" THEN pc ELSE "raised"
    /\ file_index' = file_index + 1
    /\ UNCHANGED <<directory_path, graphVars, extractVars, pipelineVars, sourceVars>>

\* return DependencyGraph(network)
ReturnGraph ==
    /\ pc = "scanning"
    /\ file_index = Len(directory_path.files)
    /\ pc' = "returned"
    /\ UNCHANGED <<graphVars, extractVars, pipelineVars, sourceVars, createVars>>

NextCreate ==
    \/ \E dir \in Directories : Enter(dir)
    \/ ScanFile
    \/ ReturnGraph

SpecCreate == InitCreate /\ [][NextCreate]_vars

\* ------------------------------------------------------------------------
\* Reachability as a relation, independent of the traversal
Successors(G, S) == UNION {Range(G.succ[x]) : x \in S \cap Range(G.nodes)}

RECURSIVE Closure(_, _)
Closure(G, S) ==
    LET T == S \cup Successors(G, S) IN IF T = S THEN S ELSE Closure(G, T)

\* the nodes reachable from n by a path of at least one edge
ReachPlus(G, n) == Closure(G, Successors(G, {n}))

OnCycle(G, n) == n \in ReachPlus(G, n)

A == <<"a">>
B == <<"b">>
C == <<"c">>

PureCycleRows == <<<<A, B>>, <<B, C>>, <<C, A>>>>
DiamondRows == <<<<A, B>>, <<A, C>>, <<B, C>>>>

Called == call.graph # "none"
CalledGraph == GraphOf(call.graph)
CalledMissing == Called /\ ~has_node(CalledGraph, call.package_name)

C2_Original ==
    CalledMissing => pc = "returned" /\ result = <<>>

\* C2 amended: a call with a name that is no node of the graph raises
\* (networkx.NetworkXError), returns no list, and leaves both graphs as built.
C2_Amended ==
    CalledMissing
        => /\ pc = "raised"
           /\ result = <<>>
           /\ dependency_graph = build_dependency_graph(dependency_graph_edges)
           /\ required_by_graph = reverse(dependency_graph)

C2_Witness ==
    /\ pc = "raised"
    /\ call.package_name = Missing
    /\ Len(dependency_graph.nodes) >= 2

\* ---------------------------------------------------------------- C3
\* C3: with R the reverse of the built graph G, for all nodes n and m:
\* m is in resolve_dependency(R, n) iff n is in resolve_dependency(G, m).
C3_Duality ==
    pc = "built"
        => \A n, m \in Range(dependency_graph.nodes) :
              /\ ~resolve_dependency(required_by_graph, n).raised
              /\ ~resolve_dependency(dependency_graph, m).raised
              /\ (m \in Range(resolve_dependency(required_by_graph, n).value)
                    <=> n \in Range(resolve_dependency(dependency_graph, m).value))

C3_Witness ==
    /\ pc = "built"
    /\ dependency_graph_edges = <<<<A, B>>, <<B, A>>, <<B, C>>>>
    /\ Range(resolve_dependency(required_by_graph, C).value) = {A, B}
    /\ C \in Range(resolve_dependency(dependency_graph, A).value)

\* ---------------------------------------------------------------- C4
\* the traversal never takes the neighbours of a node twice, yields no
\* node twice, and the returned list has no duplicates and as many entries
\* as there are nodes reachable from (and other than) the start node; every
\* started traversal returns.
C4_Safety ==
    /\ NoDuplicates(bfs.expanded)
    /\ NoDuplicates(bfs.out)
    /\ pc = "returned"
          => /\ NoDuplicates(result)
             /\ Range(result) = ReachPlus(CalledGraph, call.package_name) \ {call.package_name}
             /\ Len(result) = Cardinality(ReachPlus(CalledGraph, call.package_name)
                                            \ {call.package_name})
             /\ (dependency_graph_edges = DiamondRows /\ call.package_name = A
                    /\ call.graph = "dependency_graph"
                    => Range(result) = {B, C} /\ Len(result) = 2)

\* every traversal that has started returns its list
C4_Terminates == (pc = "running") ~> (pc = "returned")

C5_TargetsAreNodes ==
    \A i \in 1..Len(dependency_graph_edges) :
        LET t == dependency_graph_edges[i][2]
        IN  t # None
              => /\ has_node(dependency_graph, t)
                 /\ (\A j \in 1..Len(dependency_graph_edges) :
                        dependency_graph_edges[j][1] = t
                            => dependency_graph_edges[j][2] = None)
                       => dependency_graph.succ[t] = <<>>

C5_Witness ==
    /\ pc = "build"
    /\ dependency_graph_edges = <<<<A, B>>, <<A, B>>, <<C, None>>>>
    /\ has_node(dependency_graph, B)
    /\ dependency_graph.succ[B] = <<>>

\* ---------------------------------------------------------------- C7
\* the longest prefix of s made of characters of [A-Za-z0-9_-]
IsNameChar(c) == c \in Letters \cup Digits \cup {"_", "-"}

LongestPrefix(s) ==
    LET ks == {k \in 0..Len(s) : \A j \in 1..k : IsNameChar(s[j])}
    IN  SubSeq(s, 1, CHOOSE k \in ks : \A l \in ks : l <= k)

\* C7: the name extracted from a requirement string is its longest prefix of
\* name characters; when that prefix is empty nothing is extracted.
C7_LongestPrefix ==
    pc = "extracted"
        => extracted = (IF LongestPrefix(requirement) = <<>> THEN None
                        ELSE LongestPrefix(requirement))

\* ---------------------------------------------------------------- C6
TablesDone ==
    /\ pc = "graphs"
    /\ Len(transitive_dependencies) = Len(package_metadata)
    /\ Len(transitive_requirements) = Len(package_metadata)

RowsNamed(table, name) == {i \in 1..Len(table) : table[i].name = name}

ParquetNames == {parquet[i].name : i \in 1..Len(parquet)}

\* C6: the filter keeps exactly one record for each name of the snapshot,
\* one with the greatest upload_time, and the two tables have exactly one
\* row for each name.
C6_OneRecordPerName ==
    /\ pc \in {"metadata", "graphs"}
          => \A name \in ParquetNames :
                /\ Cardinality(RowsNamed(package_metadata, name)) = 1
                /\ \A i \in RowsNamed(package_metadata, name) :
                      package_metadata[i].upload_time = max_upload_time(parquet, name)
    /\ TablesDone
          => \A name \in ParquetNames :
                /\ Cardinality(RowsNamed(transitive_dependencies, name)) = 1
                /\ Cardinality(RowsNamed(transitive_requirements, name)) = 1

\* ---------------------------------------------------------------- C10
\* C10: every name with a row in the filtered table is a node of both
\* graphs, and no call of resolve_dependency made for a row raises.
C10_RowsAreNodes ==
    /\ pc # "raised"
    /\ pc = "graphs"
          => \A i \in 1..Len(package_metadata) :
                /\ has_node(dependency_graph, package_metadata[i].name)
                /\ has_node(required_by_graph, package_metadata[i].name)

C10_Witness ==
    /\ TablesDone
    /\ Len(package_metadata) = 2
    /\ package_metadata[1] = [name |-> A, upload_time |-> 1,
                              requires_dist |-> List(<<<<">">>>>)]
    /\ package_metadata[2].name = B
    /\ package_metadata[2].requires_dist \in {Null, List(<<>>)}
    /\ dependency_graph.nodes = <<A, B>>
    /\ dependency_graph.succ[A] = <<>>
    /\ transitive_requirements[2].depends_on = <<>>

\* ---------------------------------------------------------------- C8
\* every stored (name, version) holds the dependencies of the first add
C8_FirstAddKept ==
    \A name \in DOMAIN packages : \A version \in DOMAIN packages[name] :
        /\ <<name, version>> \in DOMAIN first_dependencies
        /\ packages[name][version] = first_dependencies[<<name, version>>]

\* an add of a stored (name, version) raises ValueError and changes nothing
C8_DuplicateRejected ==
    (/\ last_add'.outcome # "ParseVersionError"
     /\ IsStored(packages, last_add'.name, Version_parse(last_add'.version).version))
        => /\ last_add'.outcome = "ValueError"
           /\ packages' = packages

\* C8: an add whose (name, version) is already stored fails and leaves the
\* store unchanged, so a stored pair always keeps the dependency list of
\* the first add of that pair.
C8_Theorem == [](C8_FirstAddKept) /\ [][C8_DuplicateRejected]_vars

C8_Witness ==
    /\ last_add.outcome = "ValueError"
    /\ last_add.name = A
    /\ last_add.version = <<"1">>
    /\ last_add.deps = Deps(<<<<<<"c">>, <<"<", "2">>>>>>)
    /\ IsStored(packages, A, <<1, 0, 0>>)
    /\ packages[A][<<1, 0, 0>>] = <<Dependency(<<<<"c">>, <<">", "1">>>>)>>

\* ---------------------------------------------------------------- C9
HasEdge(G, u, v) == has_node(G, u) /\ v \in Range(G.succ[u])

\* the file has given the graph its package node and its dependency edges
Contributed(file) ==
    /\ file.kind = "metadata"
    /\ file.name # <<>>
    /\ has_node(network, normalize_package_name(file.name))
    /\ \A d \in extract_dependencies_set(file) :
          HasEdge(network, normalize_package_name(file.name), d)

\* the directory, or its web/json, does not exist
SourceMissing ==
    \/ ~directory_path.exists
    \/ directory_path.is_dir /\ ~directory_path.has_json

MissingSourceFails ==
    (pc # "start" /\ SourceMissing)
        => /\ pc = "raised"
           /\ raised = "FileNotFoundError"
           /\ network = DiGraph

\* C9 as stated: a missing source fails with not-found before anything is
\* built, and a returned graph has the node and edges of every file of the
\* directory.
C9_Original ==
    /\ MissingSourceFails
    /\ pc = "returned"
          => \A i \in 1..Len(directory_path.files) :
                directory_path.files[i].kind # "other"
                    => Contributed(directory_path.files[i])

\* C9 amended: a missing source fails with not-found before any node or
\* edge is added; a returned graph has visited every entry of the directory
\* and has the node and edges of every regular file that parses to metadata
\* with a name, the other entries being skipped.
C9_Amended ==
    /\ MissingSourceFails
    /\ pc = "returned"
          => /\ file_index = Len(directory_path.files)
             /\ \A i \in 1..Len(directory_path.files) :
                   (directory_path.files[i].kind = "metadata"
                       /\ directory_path.files[i].name # <<>>)
                       => Contributed(directory_path.files[i])

C9_Witness ==
    /\ pc = "returned"
    /\ Len(directory_path.files) = 2
    /\ directory_path.files[1].kind = "unparsable"
    /\ directory_path.files[2] =
          File("metadata", <<"A", "_", "b">>,
               List(<<<<>>, <<">", "1">>, <<"a", "[", "c", "]">>>>))
    /\ network.nodes = <<<<"a", "-", "b">>, <<"a">>>>
    /\ HasEdge(network, <<"a", "-", "b">>, <<"a">>)

====
